---- MODULE Spec2Model ----
(***************************************************************************)
(* The two plotting scripts of irmin-benchs, diet/plot.py and disk/plot.py *)
(* as one state machine.  A run reads a JSON document, groups its records  *)
(* into per-key series, sorts every series, then draws one scatter layer   *)
(* per fixed panel key (disk: plus a fitted line) and shows the figure.    *)
(* An uncaught Python exception leaves the program where it was raised,    *)
(* with err set; nothing runs after it.                                    *)
(***************************************************************************)
EXTENDS Integers, Sequences, FiniteSets, TLC

VARIABLES
  script,  \* which of the two scripts runs: "diet" or "disk"
  argc,    \* len(sys.argv)
  input,   \* the document json.load returns
  pc,      \* the statement the program is at
  i, j,    \* positions of the running loops (outer, inner)
  data,    \* the aggregation map
  xy,      \* scatter's locals x, y: the series it read last, as pairs
  drawn,   \* the layers drawn on the axes so far
  err,     \* the uncaught exception, "none" while the program runs
  shown,   \* plt.show() was reached
  log,     \* the appends, sorts and reads of this run, in order
  runs     \* invocations of the script so far

vars == <<script, argc, input, pc, i, j, data, xy, drawn, err, shown, log, runs>>

---------------------------------------------------------------------------
(* Bounds of the explored inputs.                                          *)

\* Most records of a free disk document.
MaxLen == 3
\* Largest size of a free diet document: its groups plus their measures.
MaxSize == 4
\* Most records (disk) or measures in one more group (diet) following the
\* complete document.
MaxExtra == 1
\* Most invocations of the script on the same file.
MaxRuns == 2

---------------------------------------------------------------------------
(* JSON scalars.  A number k, or the string "a" repeated k times (strings  *)
(* over one letter order by length, as Python orders them).                *)

Num(k) == [t |-> "num", x |-> k]
Str(k) == [t |-> "str", x |-> k]

IsNum(s) == s.t = "num"

\* Python's  v * 1000 : a product for a number, a repetition for a string.
Times1000Twice(v) == [t |-> v.t, x |-> v.x * 1000 * 1000]
Times1000(v) == [t |-> v.t, x |-> v.x * 1000]

\* The value stored by the diet script: v itself.
Unscaled(v) == v

---------------------------------------------------------------------------
(* Python dicts: insertion-ordered maps.                                   *)

EmptyDict == [ord |-> <<>>, map |-> <<>>]
Has(d, k) == k \in DOMAIN d.map
Get(d, k) == d.map[k]
Put(d, k, v) == [d EXCEPT !.map[k] = v]
\* d[k] = v where setdefault was meant: an entry already there is replaced.
ResetDefault(d, k, v) ==
  IF Has(d, k) THEN Put(d, k, v) ELSE [ord |-> Append(d.ord, k), map |-> d.map @@ (k :> v)]
\* dict.setdefault(k, v), as the dict it leaves.
SetDefault(d, k, v) ==
  IF Has(d, k) THEN d ELSE [ord |-> Append(d.ord, k), map |-> d.map @@ (k :> v)]

\* The dict after the subscription d[k]: a read, present or not.
LookupInserting(d, k) == SetDefault(d, k, <<>>)
AfterLookup(d, k) == d

---------------------------------------------------------------------------
(* list.sort() on a list of (n, value) tuples.                             *)

\* a < b for two scalars of one type.
ScalarLess(a, b) == a.x < b.x

\* Tuple comparison p < q: the first differing component decides.
TupleLess(p, q) ==
  IF p[1] # q[1] THEN ScalarLess(p[1], q[1])
  ELSE IF p[2] # q[2] THEN ScalarLess(p[2], q[2])
  ELSE FALSE

\* Comparing p and q compares a number with a string: TypeError.
Incomparable(p, q) ==
  IF p[1] # q[1] THEN p[1].t # q[1].t
  ELSE IF p[2] # q[2] THEN p[2].t # q[2].t
  ELSE FALSE

\* Any comparison sort must compare the neighbours of its result, so the
\* sort raises exactly when two entries of the list are incomparable.
SortRaises(s) ==
  \E a, b \in 1..Len(s) : Incomparable(s[a], s[b])

\* Stable insertion of e into the sorted list s: after every entry that is
\* not greater, by n alone when byN, else by the whole tuple.
RECURSIVE InsertBy(_, _, _)
InsertBy(e, s, byN) ==
  IF s = <<>> THEN <<e>>
  ELSE LET last == s[Len(s)]
           lt == IF byN THEN ScalarLess(e[1], last[1]) ELSE TupleLess(e, last)
       IN IF lt THEN Append(InsertBy(e, SubSeq(s, 1, Len(s) - 1), byN), last)
          ELSE Append(s, e)

RECURSIVE SortBy(_, _)
SortBy(s, byN) ==
  IF s = <<>> THEN <<>>
  ELSE InsertBy(s[Len(s)], SortBy(SubSeq(s, 1, Len(s) - 1), byN), byN)

\* A stable sort keyed on n alone (what  sort(key=lambda p: p[0])  would do).
StableByN(s) == SortBy(s, TRUE)
Unsorted(s) == s
\* series.sort(): stable, on whole tuples.
Sorted(s) == SortBy(s, FALSE)

\* The orders a list may be left in when its sort raises.
Perms(s) == {[k \in 1..Len(s) |-> s[f[k]]] : f \in Permutations(1..Len(s))}

---------------------------------------------------------------------------
(* The documents explored.                                                 *)

\* The sum of a sequence of integers.
RECURSIVE Sum(_)
Sum(s) == IF s = <<>> THEN 0 ELSE s[Len(s)] + Sum(SubSeq(s, 1, Len(s) - 1))

\* The numbers used for n and for value in a record.
NumVals == {Num(1), Num(2)}

\* Measure records [m, n, v] of metric m: every numeric (n, v), one with a
\* string for n, one with a string for v.
GoodMeasures(m) ==
  {<<m, n, v>> : n \in NumVals, v \in NumVals}
    \cup {<<m, Str(1), Num(1)>>, <<m, Num(1), Str(1)>>}

\* The six (key, label) pairs of disk/plot.py, with the axes they go to.
DiskPanels ==
  << [ax |-> 0, key |-> "sequential.read"],
     [ax |-> 0, key |-> "append.read"],
     [ax |-> 0, key |-> "random.read"],
     [ax |-> 1, key |-> "sequential.write"],
     [ax |-> 1, key |-> "append.write"],
     [ax |-> 1, key |-> "random.write"] >>

\* The nine scatter calls of diet/plot.py: three plot() calls of three each.
DietKinds == <<"monotonic-clock", "major-allocated", "minor-allocated">>
DietMetrics == <<"diet/add_interval", "diet/remove_interval", "diet/take_interval">>
DietPanels ==
  [p \in 1..9 |-> [ax |-> (p - 1) \div 3,
                   kind |-> DietKinds[((p - 1) \div 3) + 1],
                   key |-> DietMetrics[((p - 1) % 3) + 1]]]

\* Records of a free disk document: two of the metrics, and one record of
\* the wrong arity.
DiskRecs ==
  GoodMeasures("sequential.read") \cup GoodMeasures("append.read")
    \cup {<<"sequential.read", Num(1)>>}

\* A disk document with one record for every panel key.
DiskComplete == [p \in 1..6 |-> <<DiskPanels[p].key, Num(2), Num(1)>>]

DietRecs ==
  GoodMeasures("diet/add_interval") \cup GoodMeasures("diet/remove_interval")
    \cup {<<"diet/add_interval", Num(1)>>}

\* The shapes of the diet documents of size at most sz (a group counts one,
\* a measure one): per group its number of measures, -1 for a group of the
\* wrong arity.
DietShapes[sz \in 0..(MaxSize + MaxExtra + 1)] ==
  IF sz = 0 THEN {<<>>}
  ELSE {<<>>}
         \cup {<<-1>> \o rest : rest \in DietShapes[sz - 1]}
         \cup UNION {{<<k>> \o rest : rest \in DietShapes[sz - 1 - k]}
                     : k \in 0..(sz - 1)}

\* The measures of a shape, and those before its group g.
Measures(sh) == Sum([g \in 1..Len(sh) |-> IF sh[g] < 0 THEN 0 ELSE sh[g]])
Before(sh, g) == Measures(SubSeq(sh, 1, g - 1))

\* The kinds of the groups of a free diet document.
FreeKinds == {"monotonic-clock", "major-allocated"}

\* The document of shape sh whose groups have the kinds ks and, in order,
\* the measures fl.
DietDoc(sh, ks, fl) ==
  [g \in 1..Len(sh) |->
     IF sh[g] < 0 THEN <<ks[g]>>
     ELSE <<ks[g], SubSeq(fl, Before(sh, g) + 1, Before(sh, g) + sh[g])>>]

\* A diet document with every panel series: one group per kind.
DietComplete ==
  [g \in 1..3 |-> <<DietKinds[g], [q \in 1..3 |-> <<DietMetrics[q], Num(2), Num(1)>>]>>]

\* input is a document of the disk script: at most MaxLen records, or the
\* complete document and at most MaxExtra more.
DiskInput ==
  \E base \in {<<>>, DiskComplete} :
    \E k \in 0..(IF base = <<>> THEN MaxLen ELSE MaxExtra) :
      \E p \in [1..k -> DiskRecs] : input = base \o p

\* input is a document of the diet script: of size at most MaxSize, or the
\* complete document and at most one more group of at most MaxExtra measures.
DietInput ==
  \E base \in {<<>>, DietComplete} :
    \E sh \in DietShapes[IF base = <<>> THEN MaxSize ELSE MaxExtra + 1] :
      \E ks \in [1..Len(sh) -> FreeKinds] :
        \E fl \in [1..Measures(sh) -> DietRecs] :
          input = base \o DietDoc(sh, ks, fl)

---------------------------------------------------------------------------
(* LinearRegression().fit(x, y) and predict(x), in exact rationals.        *)

Abs(a) == IF a < 0 THEN -a ELSE a

RECURSIVE GCD(_, _)
GCD(a, b) == IF b = 0 THEN a ELSE GCD(b, a % b)

\* The rational p/q in lowest terms, q > 0.
Rat(p, q) ==
  LET g == GCD(Abs(p), Abs(q))
      sg == IF q < 0 THEN -1 ELSE 1
  IN <<sg * (p \div g), sg * (q \div g)>>

RAdd(a, b) == Rat(a[1] * b[2] + b[1] * a[2], a[2] * b[2])
RMulInt(a, k) == Rat(a[1] * k, a[2])

\* The sums least squares needs, over the points (n, value) of a series.
SumX(s) == Sum([k \in 1..Len(s) |-> s[k][1].x])
SumY(s) == Sum([k \in 1..Len(s) |-> s[k][2].x])
SumXX(s) == Sum([k \in 1..Len(s) |-> s[k][1].x * s[k][1].x])
SumXY(s) == Sum([k \in 1..Len(s) |-> s[k][1].x * s[k][2].x])

\* Every n and every value of the series is a number.
AllNumeric(s) == \A k \in 1..Len(s) : IsNum(s[k][1]) /\ IsNum(s[k][2])

\* A numeric series on which least squares has no unique line: one point,
\* or every n the same.
Degenerate(s) == \A a, b \in 1..Len(s) : s[a][1] = s[b][1]

\* A fit through the origin (fit_intercept=False).
FitNoIntercept(s) ==
  IF SumXX(s) = 0 THEN [slope |-> Rat(0, 1), intercept |-> Rat(0, 1)]
  ELSE [slope |-> Rat(SumXY(s), SumXX(s)), intercept |-> Rat(0, 1)]

\* Ordinary least squares with an intercept; on a degenerate series the
\* minimum-norm solution: slope 0 through the mean.
Fit(s) ==
  LET N == Len(s)
      Sx == SumX(s)
      Sy == SumY(s)
      den == N * SumXX(s) - Sx * Sx
      num == N * SumXY(s) - Sx * Sy
  IN IF den = 0 THEN [slope |-> Rat(0, 1), intercept |-> Rat(Sy, N)]
     ELSE [slope |-> Rat(num, den), intercept |-> Rat(Sy * den - num * Sx, N * den)]

\* model.predict at one x.
Predict(f, x) == RAdd(RMulInt(f.slope, x), f.intercept)

ScatterLayer(ax, key, s) == [type |-> "scatter", ax |-> ax, key |-> key, pts |-> s]

\* ax.plot(x, model.predict(x)): the fitted line through every x of the series.
LineLayer(ax, key, s) ==
  LET f == Fit(s)
  IN [type |-> "line", ax |-> ax, key |-> key, slope |-> f.slope,
      intercept |-> f.intercept,
      pts |-> [k \in 1..Len(s) |-> <<s[k][1].x, Predict(f, s[k][1].x)>>]]

---------------------------------------------------------------------------
(* The program.                                                            *)

Init ==
  /\ script \in {"diet", "disk"}
  /\ argc \in {1, 2}
  /\ IF argc < 2 THEN input = <<>>
     ELSE IF script = "disk" THEN DiskInput ELSE DietInput
  /\ pc = "start"
  /\ i = 0 /\ j = 0
  /\ data = EmptyDict
  /\ xy = <<>>
  /\ drawn = <<>>
  /\ err = "none"
  /\ shown = FALSE
  /\ log = <<>>
  /\ runs = 1

Running == err = "none"

\* An uncaught exception: the program stops where it is.
Raise(e) ==
  /\ err' = e
  /\ UNCHANGED <<script, argc, input, pc, i, j, xy, drawn, shown, log, runs>>

\* len(sys.argv) < 2: print the usage line and exit().
Usage ==
  /\ Running /\ pc = "start" /\ argc < 2
  /\ pc' = "exit"
  /\ UNCHANGED <<script, argc, input, i, j, data, xy, drawn, err, shown, log, runs>>

\* open(path), data = {}, json.load(file): the load loop is entered.
Open ==
  /\ Running /\ pc = "start" /\ argc >= 2
  /\ pc' = "load" /\ i' = 1 /\ j' = 0
  /\ data' = EmptyDict
  /\ UNCHANGED <<script, argc, input, xy, drawn, err, shown, log, runs>>

\* A subscription with a key the dict lacks, caught and passed over.
SkipMissing ==
  /\ i' = i + 1
  /\ UNCHANGED <<err, xy, drawn, log>>
\* A subscription with a key the dict lacks: KeyError, uncaught.
OnMissing ==
  /\ err' = "KeyError"
  /\ UNCHANGED <<i, xy, drawn, log>>

\* The load loop with the sort pulled into it: each series is sorted as soon
\* as a record is appended to it.
DiskLoadSorting ==
  /\ Running /\ script = "disk" /\ pc = "load" /\ i <= Len(input)
  /\ LET rec == input[i] IN
     IF Len(rec) # 3
       THEN Raise("ValueError") /\ UNCHANGED data
       ELSE LET d == SetDefault(data, rec[1], <<>>)
                series == Append(Get(d, rec[1]), <<rec[2], Times1000(rec[3])>>)
            IN /\ data' = Put(d, rec[1], Sorted(series))
               /\ i' = i + 1
               /\ log' = log \o <<(<<"append", rec[1]>>), (<<"sort", rec[1]>>)>>
               /\ UNCHANGED <<script, argc, input, pc, j, xy, drawn, err, shown, runs>>

\* disk: one iteration of  for [m, n, v] in json.load(file).
DiskLoad ==
  /\ Running /\ script = "disk" /\ pc = "load" /\ i <= Len(input)
  /\ LET rec == input[i] IN
     IF Len(rec) # 3
       THEN Raise("ValueError") /\ UNCHANGED data
       ELSE LET d == SetDefault(data, rec[1], <<>>)
                series == Append(Get(d, rec[1]), <<rec[2], Times1000(rec[3])>>)
            IN /\ data' = Put(d, rec[1], series)
               /\ i' = i + 1
               /\ log' = Append(log, <<"append", rec[1]>>)
               /\ UNCHANGED <<script, argc, input, pc, j, xy, drawn, err, shown, runs>>

\* diet: for [kind, measures] in json.load(file): sub_data = data.setdefault(kind, {}).
DietGroup ==
  /\ Running /\ script = "diet" /\ pc = "load" /\ i <= Len(input) /\ j = 0
  /\ LET grp == input[i] IN
     IF Len(grp) # 2
       THEN Raise("ValueError") /\ UNCHANGED data
       ELSE /\ data' = SetDefault(data, grp[1], EmptyDict)
            /\ j' = 1
            /\ UNCHANGED <<script, argc, input, pc, i, xy, drawn, err, shown, log, runs>>

\* diet: one iteration of  for [m, n, v] in measures.
DietMeasure ==
  /\ Running /\ script = "diet" /\ pc = "load" /\ i <= Len(input) /\ j >= 1
  /\ j <= Len(input[i][2])
  /\ LET kind == input[i][1]
         rec == input[i][2][j]
     IN
     IF Len(rec) # 3
       THEN Raise("ValueError") /\ UNCHANGED data
       ELSE LET sub == SetDefault(Get(data, kind), rec[1], <<>>)
                series == Append(Get(sub, rec[1]), <<rec[2], Unscaled(rec[3])>>)
            IN /\ data' = Put(data, kind, Put(sub, rec[1], series))
               /\ j' = j + 1
               /\ log' = Append(log, <<"append", <<kind, rec[1]>>>>)
               /\ UNCHANGED <<script, argc, input, pc, i, xy, drawn, err, shown, runs>>

\* diet: the measures of a group are exhausted.
DietGroupDone ==
  /\ Running /\ script = "diet" /\ pc = "load" /\ i <= Len(input) /\ j >= 1
  /\ j > Len(input[i][2])
  /\ i' = i + 1 /\ j' = 0
  /\ UNCHANGED <<script, argc, input, pc, data, xy, drawn, err, shown, log, runs>>

\* The document is exhausted: the sort loop is entered.
LoadDone ==
  /\ Running /\ pc = "load" /\ i > Len(input)
  /\ pc' = "sort" /\ i' = 1 /\ j' = 1
  /\ UNCHANGED <<script, argc, input, data, xy, drawn, err, shown, log, runs>>

\* disk: one iteration of  for k in data: data[k].sort().
DiskSort ==
  /\ Running /\ script = "disk" /\ pc = "sort" /\ i <= Len(data.ord)
  /\ LET k == data.ord[i]
         s == Get(data, k)
     IN
     IF SortRaises(s)
       THEN /\ err' = "TypeError"
            /\ \E p \in Perms(s) : data' = Put(data, k, p)
            /\ UNCHANGED <<script, argc, input, pc, i, j, xy, drawn, shown, log, runs>>
       ELSE /\ data' = Put(data, k, Sorted(s))
            /\ i' = i + 1
            /\ log' = Append(log, <<"sort", k>>)
            /\ UNCHANGED <<script, argc, input, pc, j, xy, drawn, err, shown, runs>>

\* diet: one iteration of  for k in data[kind]: data[kind][k].sort().
DietSort ==
  /\ Running /\ script = "diet" /\ pc = "sort" /\ i <= Len(data.ord)
  /\ j <= Len(Get(data, data.ord[i]).ord)
  /\ LET kind == data.ord[i]
         sub == Get(data, kind)
         k == sub.ord[j]
         s == Get(sub, k)
     IN
     IF SortRaises(s)
       THEN /\ err' = "TypeError"
            /\ \E p \in Perms(s) : data' = Put(data, kind, Put(sub, k, p))
            /\ UNCHANGED <<script, argc, input, pc, i, j, xy, drawn, shown, log, runs>>
       ELSE /\ data' = Put(data, kind, Put(sub, k, Sorted(s)))
            /\ j' = j + 1
            /\ log' = Append(log, <<"sort", <<kind, k>>>>)
            /\ UNCHANGED <<script, argc, input, pc, i, xy, drawn, err, shown, runs>>

\* diet: the series of a kind are exhausted.
DietSortKindDone ==
  /\ Running /\ script = "diet" /\ pc = "sort" /\ i <= Len(data.ord)
  /\ j > Len(Get(data, data.ord[i]).ord)
  /\ i' = i + 1 /\ j' = 1
  /\ UNCHANGED <<script, argc, input, pc, data, xy, drawn, err, shown, log, runs>>

\* The keys are exhausted, the with block is left: styling, plt.subplots, and
\* the first scatter call is next.
SortDone ==
  /\ Running /\ pc = "sort" /\ i > Len(data.ord)
  /\ pc' = "scatter" /\ i' = 1 /\ j' = 0
  /\ UNCHANGED <<script, argc, input, data, xy, drawn, err, shown, log, runs>>

\* disk: scatter(ax, key, label), the i-th of the six calls.
DiskScatter ==
  /\ Running /\ script = "disk" /\ pc = "scatter" /\ i <= Len(DiskPanels)
  /\ LET p == DiskPanels[i] IN
     /\ data' = AfterLookup(data, p.key)
     /\ UNCHANGED <<script, argc, input, pc, j, shown, runs>>
     /\ IF ~Has(data, p.key)
          THEN OnMissing
          ELSE LET s == Get(data, p.key) IN
               /\ xy' = s
               /\ log' = Append(log, <<"read", p.key>>)
               /\ IF s = <<>>
                    \* x, y = zip(*[]) has nothing to unpack
                    THEN err' = "ValueError" /\ UNCHANGED <<i, drawn>>
                    ELSE IF AllNumeric(s)
                      THEN /\ drawn' = drawn \o <<ScatterLayer(p.ax, p.key, s),
                                                  LineLayer(p.ax, p.key, s)>>
                           /\ i' = i + 1
                           /\ UNCHANGED err
                      \* strings among the data: ax.scatter rejects them, or
                      \* draws them and model.fit rejects them
                      ELSE \/ err' = "DrawError" /\ UNCHANGED <<i, drawn>>
                           \/ /\ err' = "FitError"
                              /\ drawn' = Append(drawn, ScatterLayer(p.ax, p.key, s))
                              /\ UNCHANGED i

\* diet: the i-th of the nine scatter calls: plot(axs[.], data[kind]) for the
\* first of each three, then scatter(ax, data, key, label).
DietScatter ==
  /\ Running /\ script = "diet" /\ pc = "scatter" /\ i <= Len(DietPanels)
  /\ LET p == DietPanels[i] IN
     /\ UNCHANGED <<script, argc, input, pc, j, shown, runs>>
     /\ IF ~Has(data, p.kind)
          THEN /\ OnMissing
               /\ data' = AfterLookup(data, p.kind)
          ELSE LET sub == Get(data, p.kind) IN
               /\ data' = Put(data, p.kind, AfterLookup(sub, p.key))
               /\ IF ~Has(sub, p.key)
                    THEN OnMissing
                    ELSE LET s == Get(sub, p.key) IN
                         /\ xy' = s
                         /\ log' = Append(log, <<"read", <<p.kind, p.key>>>>)
                         /\ IF s = <<>>
                              THEN err' = "ValueError" /\ UNCHANGED <<i, drawn>>
                              ELSE IF AllNumeric(s)
                                THEN /\ drawn' = Append(drawn,
                                          ScatterLayer(p.ax, <<p.kind, p.key>>, s))
                                     /\ i' = i + 1
                                     /\ UNCHANGED err
                                \* strings among the data: ax.scatter rejects
                                \* them or draws them as categories
                                ELSE \/ err' = "DrawError" /\ UNCHANGED <<i, drawn>>
                                     \/ /\ drawn' = Append(drawn,
                                             ScatterLayer(p.ax, <<p.kind, p.key>>, s))
                                        /\ i' = i + 1
                                        /\ UNCHANGED err

\* The number of scatter calls of the running script.
NPanels == IF script = "disk" THEN Len(DiskPanels) ELSE Len(DietPanels)

\* Every scatter call returned: plt.tight_layout(), plt.show().
Show ==
  /\ Running /\ pc = "scatter" /\ i > NPanels
  /\ pc' = "done"
  /\ shown' = TRUE
  /\ UNCHANGED <<script, argc, input, i, j, data, xy, drawn, err, log, runs>>

\* After a run that showed its figure, the script is invoked again on the
\* same file: a new process, nothing kept.
Rerun ==
  /\ pc = "done" /\ runs < MaxRuns
  /\ runs' = runs + 1
  /\ pc' = "start"
  /\ i' = 0 /\ j' = 0
  /\ data' = EmptyDict
  /\ xy' = <<>>
  /\ drawn' = <<>>
  /\ err' = "none"
  /\ shown' = FALSE
  /\ log' = <<>>
  /\ UNCHANGED <<script, argc, input>>

Next ==
  \/ Usage \/ Open
  \/ DiskLoad \/ DietGroup \/ DietMeasure \/ DietGroupDone \/ LoadDone
  \/ DiskSort \/ DietSort \/ DietSortKindDone \/ SortDone
  \/ DiskScatter \/ DietScatter \/ Show
  \/ Rerun

Spec == Init /\ [][Next]_vars

---------------------------------------------------------------------------
(* What the input submitted, read off the document and the program's       *)
(* position alone.                                                         *)

\* The measures [key, n, v] of the first `upto` measures of a diet group.
GroupItems(grp, upto) ==
  [k \in 1..upto |-> [key |-> <<grp[1], grp[2][k][1]>>,
                      n |-> grp[2][k][2], v |-> grp[2][k][3]]]

RECURSIVE FlatGroups(_, _)
FlatGroups(doc, g) ==
  IF g = 0 THEN <<>>
  ELSE FlatGroups(doc, g - 1) \o GroupItems(doc[g], Len(doc[g][2]))

\* The records the load loop has consumed so far, in input order.
Consumed ==
  IF pc \in {"start", "exit"} THEN <<>>
  ELSE IF script = "disk"
    THEN LET c == IF pc = "load" THEN i - 1 ELSE Len(input)
         IN [k \in 1..c |-> [key |-> input[k][1], n |-> input[k][2], v |-> input[k][3]]]
    ELSE IF pc = "load"
      THEN FlatGroups(input, i - 1)
             \o (IF i <= Len(input) /\ j >= 2 THEN GroupItems(input[i], j - 1) ELSE <<>>)
      ELSE FlatGroups(input, Len(input))

\* The kinds of the diet groups the load loop has entered so far.
EnteredKinds ==
  IF script = "disk" \/ pc \in {"start", "exit"} THEN {}
  ELSE IF pc = "load"
    THEN {input[g][1] : g \in 1..(i - 1)}
           \cup (IF i <= Len(input) /\ j >= 1 THEN {input[i][1]} ELSE {})
    ELSE {input[g][1] : g \in 1..Len(input)}

ConsumedKeys == {Consumed[k].key : k \in 1..Len(Consumed)}

\* One thousand times a value, as the specification of the disk script has it.
Milli(v) == [t |-> v.t, x |-> 1000 * v.x]

\* The value a record's v is to be held as.
Held(v) == IF script = "disk" THEN Milli(v) ELSE v

RECURSIVE PairsOf(_, _)
PairsOf(recs, key) ==
  IF recs = <<>> THEN <<>>
  ELSE LET r == recs[Len(recs)]
           rest == PairsOf(SubSeq(recs, 1, Len(recs) - 1), key)
       IN IF r.key = key THEN Append(rest, <<r.n, Held(r.v)>>) ELSE rest

\* The (n, value) pairs submitted under a key, in input order.
SubmittedFor(key) == PairsOf(Consumed, key)

\* The series keys of an aggregation map, and the series at a key.
KeysIn(d) ==
  IF script = "disk" THEN DOMAIN d.map
  ELSE UNION {{<<kind, m>> : m \in DOMAIN d.map[kind].map} : kind \in DOMAIN d.map}
SeriesIn(d, key) ==
  IF script = "disk" THEN d.map[key] ELSE d.map[key[1]].map[key[2]]
Keys == KeysIn(data)
Series(key) == SeriesIn(data, key)

Occurrences(s, e) == Cardinality({k \in 1..Len(s) : s[k] = e})
SameBag(s, t) ==
  /\ Len(s) = Len(t)
  /\ \A k \in 1..Len(s) : Occurrences(s, s[k]) = Occurrences(t, s[k])

\* The key of the i-th scatter call.
PanelKey(p) ==
  IF script = "disk" THEN DiskPanels[p].key
  ELSE <<DietPanels[p].kind, DietPanels[p].key>>

\* The keys of the log's events of one type, and the positions of the events.
Events(type) == {k \in 1..Len(log) : log[k][1] = type}
LoadOver == pc \in {"sort", "scatter", "done"}
SortOver == pc \in {"scatter", "done"}

\* The series is non-decreasing in n.
NonDecreasing(s) ==
  \A k \in 1..(Len(s) - 1) : s[k][1].t = s[k + 1][1].t /\ s[k][1].x <= s[k + 1][1].x

---------------------------------------------------------------------------
(* The claims.                                                             *)

\* C1: at every point of a run, for every key the input has submitted so
\* far, the series held under that key is, as a multiset, exactly the
\* (n, value) pairs submitted under it (value times 1000 for disk): the count
\* is kept, nothing is dropped, equal-n pairs stay separate entries, also
\* when a diet kind comes in several groups.
C1_SeriesHoldsSubmitted ==
  /\ ConsumedKeys \subseteq Keys
  /\ \A key \in Keys : SameBag(Series(key), SubmittedFor(key))

\* A diet run past its load in which one kind came in two groups, both
\* feeding the same series with the same n.
C1_Witness ==
  /\ script = "diet" /\ SortOver /\ Len(input) = 2
  /\ Len(input[1]) = 2 /\ Len(input[2]) = 2
  /\ input[1][1] = input[2][1]
  /\ Len(input[1][2]) = 1 /\ Len(input[2][2]) = 1
  /\ Len(input[1][2][1]) = 3 /\ Len(input[2][2][1]) = 3
  /\ input[1][2][1][1] = input[2][2][1][1]
  /\ input[1][2][1][2] = input[2][2][1][2]
  /\ Len(Series(<<input[1][1], input[1][2][1][1]>>)) = 2

\* C2 as stated: once the sorts are over, every series is the stable sort by
\* n of what was submitted: entries of equal n keep their input order,
\* whatever their values.
C2_StableByN ==
  SortOver => \A key \in Keys : Series(key) = StableByN(SubmittedFor(key))

\* C2 amended: once the sorts are over, every series is in Python's tuple
\* order on (n, value): n ascending and, among entries of equal n, value
\* ascending, whatever their order in the input.
C2_TupleOrder ==
  SortOver =>
    \A key \in Keys :
      LET s == Series(key) IN
      \A k \in 1..(Len(s) - 1) :
        \/ s[k][1].t = s[k + 1][1].t /\ s[k][1].x < s[k + 1][1].x
        \/ /\ s[k][1] = s[k + 1][1]
           /\ s[k][2].t = s[k + 1][2].t /\ s[k][2].x <= s[k + 1][2].x

\* A sorted series with two entries of equal n that came in the other order.
C2_Witness ==
  /\ SortOver
  /\ \E key \in Keys :
       /\ Series(key) # StableByN(SubmittedFor(key))
       /\ \E k \in 1..(Len(Series(key)) - 1) : Series(key)[k][1] = Series(key)[k + 1][1]

\* C3: whatever scatter has read is non-decreasing in n, and from the first
\* scatter call on every series of the map is.
C3_ReadsNonDecreasing ==
  /\ NonDecreasing(xy)
  /\ SortOver => \A key \in Keys : NonDecreasing(Series(key))

\* scatter has read a series of distinct n that was submitted out of order.
C3_Witness ==
  /\ Len(log) > 0 /\ log[Len(log)][1] = "read"
  /\ xy = Series(log[Len(log)][2])
  /\ Len(xy) >= 2
  /\ ~NonDecreasing(SubmittedFor(log[Len(log)][2]))

\* C4: the keys of the map are exactly the keys the input has submitted (for
\* diet: the (kind, metric) pairs, and the kinds are those of the groups
\* entered); a panel lookup creates none, and no key holds an empty series.
C4_KeysAreObserved ==
  /\ script = "diet" => DOMAIN data.map = EnteredKinds
  /\ Keys = ConsumedKeys
  /\ \A key \in Keys : Series(key) # <<>>

\* A diet panel looked up a metric the input never had, under a kind it had.
C4_Witness ==
  /\ script = "diet" /\ err = "KeyError"
  /\ DietPanels[i].kind \in DOMAIN data.map
  /\ Keys # {}
  /\ PanelKey(i) \notin Keys

\* The values held under a key, and the values the input gave for it.
ValuesHeld(key) == [k \in 1..Len(Series(key)) |-> Series(key)[k][2]]
RECURSIVE RawFor(_, _)
RawFor(recs, key) ==
  IF recs = <<>> THEN <<>>
  ELSE LET r == recs[Len(recs)]
           rest == RawFor(SubSeq(recs, 1, Len(recs) - 1), key)
       IN IF r.key = key THEN Append(rest, r.v) ELSE rest

\* C5: in the disk script, in every run on the same file, the values held
\* under a key are the input's values for it, each times 1000 once; what
\* scatter reads and draws are those held values, not multiplied again.
C5_ScaledOnce ==
  script = "disk" =>
    /\ \A key \in Keys :
         LET raw == RawFor(Consumed, key)
         IN SameBag(ValuesHeld(key), [k \in 1..Len(raw) |-> Milli(raw[k])])
    /\ \A k \in 1..Len(drawn) :
         drawn[k].type = "scatter" => drawn[k].pts = Series(drawn[k].key)
    /\ Events("read") # {} => xy = Series(log[Len(log)][2])

\* The second run of the disk script on a file has shown its figure, with a
\* series that holds several values.
C5_Witness ==
  /\ script = "disk" /\ runs = 2 /\ pc = "done"
  /\ \E key \in Keys : Len(Series(key)) >= 2

\* C6, in the states: a KeyError stands at a scatter call whose key the map
\* lacks, with no figure shown; a shown figure had every panel key; no read
\* ever yielded an empty series.
C6_State ==
  /\ err = "KeyError" => pc = "scatter" /\ ~shown /\ PanelKey(i) \notin Keys
  /\ shown => \A p \in 1..NPanels : PanelKey(p) \in Keys
  /\ Events("read") # {} => xy # <<>>

\* C6: a scatter call whose key is absent from the map fails with KeyError
\* and the run ends there: nothing is read, nothing is drawn, the map is not
\* extended, and the figure is never shown.
C6_AbsentKeyAborts ==
  /\ []C6_State
  /\ [][(Running /\ pc = "scatter" /\ i <= NPanels /\ PanelKey(i) \notin Keys)
          => /\ err' = "KeyError"
             /\ data' = data /\ xy' = xy /\ drawn' = drawn /\ log' = log
             /\ shown' = FALSE]_vars

\* A disk run stopped by a missing key after it had drawn other series.
C6_Witness ==
  /\ script = "disk" /\ err = "KeyError" /\ drawn # <<>> /\ ~shown

\* The document does not have the shape of the script's dataset.
Malformed ==
  IF script = "disk"
    THEN \E k \in 1..Len(input) :
           \/ Len(input[k]) # 3
           \/ Len(input[k]) = 3 /\ ~(IsNum(input[k][2]) /\ IsNum(input[k][3]))
    ELSE \E g \in 1..Len(input) :
           \/ Len(input[g]) # 2
           \/ /\ Len(input[g]) = 2
              /\ \E k \in 1..Len(input[g][2]) :
                   \/ Len(input[g][2][k]) # 3
                   \/ /\ Len(input[g][2][k]) = 3
                      /\ ~(IsNum(input[g][2][k][2]) /\ IsNum(input[g][2][k][3]))

\* C7 as stated: no record with a non-numeric n or value is ever held in a
\* series, and on a malformed document no series is read and no figure shown.
C7_MalformedRejected ==
  /\ \A key \in Keys : AllNumeric(Series(key))
  /\ Malformed => Events("read") = {} /\ ~shown

\* C8 as stated: no trend line is drawn for a series of fewer than 2 points
\* or of one n only.
C8_NoLineForDegenerate ==
  \A k \in 1..Len(drawn) :
    drawn[k].type = "line" => ~Degenerate(Series(drawn[k].key))

\* The line through the points p and q of s holds every point of s.
CollinearThrough(s, p, q) ==
  \A r \in 1..Len(s) :
    (s[r][2].x - s[p][2].x) * (s[q][1].x - s[p][1].x)
      = (s[q][2].x - s[p][2].x) * (s[r][1].x - s[p][1].x)

\* C9: for a drawn trend line whose series has two distinct n and lies on one
\* line value = a*n + b, the fitted slope is a, the intercept is b, and the
\* line drawn meets the series at its least and its greatest n.
C9_ExactOnCollinear ==
  \A k \in 1..Len(drawn) :
    drawn[k].type = "line" =>
      LET L == drawn[k]
          s == Series(L.key)
      IN \A p, q \in 1..Len(s) :
           (s[p][1].x < s[q][1].x /\ CollinearThrough(s, p, q)) =>
             LET dx == s[q][1].x - s[p][1].x
                 dy == s[q][2].x - s[p][2].x
             IN /\ L.slope = Rat(dy, dx)
                /\ L.intercept = Rat(s[p][2].x * dx - dy * s[p][1].x, dx)
                /\ \A r \in 1..Len(s) :
                     (\/ \A t \in 1..Len(s) : s[r][1].x <= s[t][1].x
                      \/ \A t \in 1..Len(s) : s[r][1].x >= s[t][1].x)
                       => L.pts[r] = <<s[r][1].x, Rat(s[r][2].x, 1)>>

\* A trend line drawn for three points on a line that misses the origin.
C9_Witness ==
  \E k \in 1..Len(drawn) :
    /\ drawn[k].type = "line"
    /\ Len(Series(drawn[k].key)) = 3
    /\ \E p, q \in 1..3 :
         /\ Series(drawn[k].key)[p][1].x < Series(drawn[k].key)[q][1].x
         /\ CollinearThrough(Series(drawn[k].key), p, q)
    /\ drawn[k].intercept # Rat(0, 1)

\* C10, in the states: in the log of a run every append precedes every sort
\* and every sort every read; sorts begin only when the load loop is over and
\* reads only when the sort loop is; no key is sorted twice, every read key
\* was sorted, and once the sort loop is over every key has been sorted.
C10_State ==
  /\ \A a \in Events("append"), b \in Events("sort") : a < b
  /\ \A b \in Events("sort"), c \in Events("read") : b < c
  /\ Events("sort") # {} => LoadOver
  /\ Events("read") # {} => SortOver
  /\ \A b1, b2 \in Events("sort") : log[b1][2] = log[b2][2] => b1 = b2
  /\ \A c \in Events("read") : \E b \in Events("sort") : log[b][2] = log[c][2]
  /\ SortOver => \A key \in Keys : \E b \in Events("sort") : log[b][2] = key

\* C10: the steps of a run come in the order append, sort, read, each
\* series is sorted once, and until the process ends a sorted series is never
\* changed again, nor the key set once the load loop is over.
C10_PipelineOrder ==
  /\ []C10_State
  /\ [][pc' # "start" =>
          /\ \A b \in Events("sort") :
               /\ log[b][2] \in KeysIn(data')
               /\ SeriesIn(data', log[b][2]) = Series(log[b][2])
          /\ LoadOver => KeysIn(data') = Keys]_vars

\* A diet run that showed its figure after sorting a series of two entries.
C10_Witness ==
  /\ script = "diet" /\ pc = "done"
  /\ \E key \in Keys : Len(Series(key)) >= 2 /\ Series(key)[1] # Series(key)[2]

====
